---- MODULE Spec2Model ----
(***************************************************************************)
(* csv2beancount (src/src/main.rs): one pass over the records of a CSV     *)
(* file; every record after the skipped ones becomes one two-posting       *)
(* beancount transaction printed on standard output.                       *)
(*                                                                         *)
(* Text is modelled as text.  A CSV field is a sequence of one-character   *)
(* strings, so that the parsers (decimal, date) can scan it; everything    *)
(* printed is a TLA+ string built with \o, one string per output line.     *)
(*                                                                         *)
(* Input alphabet of the model: the digits, '.', '-', '+', '/', the space  *)
(* and letters that spell none of the special decimal words (inf,          *)
(* infinity, nan, snan) and no exponent marker.  The CSV reader            *)
(* (delimiter, quote, has_headers(false), lines 106-110) is the boundary:  *)
(* the model starts from the records it yields, all of one width.          *)
(***************************************************************************)
EXTENDS Integers, Sequences, FiniteSets, TLC

VARIABLES
    config,      \* root_config.csv                            (line 102)
    rules,       \* root_config.transactions, Option<HashMap>  (line 103)
    records,     \* the records rdr.records() yields, in file order
    pc,          \* "start", "loop", "done" (Ok(())) or "aborted"
    pos,         \* number of records the iterator has consumed
    first,       \* let mut first                              (line 112)
    out,         \* standard output, one string per line
    txns,        \* the Transaction values printed so far (history)
    failure      \* what ended the run: None or Some([kind, msg])

vars == <<config, rules, records, pc, pos, first, out, txns, failure>>

\* ------------------------------------------------------------------ bounds
MaxRows == 3

\* ------------------------------------------------------------------ Option
None == [some |-> FALSE]
Some(v) == [some |-> TRUE, val |-> v]
UnwrapOr(o, d) == IF o.some THEN o.val ELSE d

\* -------------------------------------------------------------------- text
DigitChars == <<"0", "1", "2", "3", "4", "5", "6", "7", "8", "9">>
IsDigit(c) == \E i \in 1..10 : DigitChars[i] = c
DigitVal(c) == (CHOOSE i \in 1..10 : DigitChars[i] = c) - 1

\* The text of a field: the field's characters, unchanged, in order.
RECURSIVE Str(_)
Str(f) == IF f = <<>> THEN "" ELSE f[1] \o Str(Tail(f))

\* Decimal digits of a natural number, no leading zeros.
RECURSIVE NatStr(_)
NatStr(n) == IF n < 10 THEN DigitChars[n + 1]
             ELSE NatStr(n \div 10) \o DigitChars[(n % 10) + 1]

RECURSIVE NatLen(_)
NatLen(n) == IF n < 10 THEN 1 ELSE 1 + NatLen(n \div 10)

RECURSIVE Zeros(_)
Zeros(k) == IF k <= 0 THEN "" ELSE "0" \o Zeros(k - 1)

RECURSIVE Pow10(_)
Pow10(k) == IF k <= 0 THEN 1 ELSE 10 * Pow10(k - 1)

\* {:0w} of a natural number.
Pad(n, w) == Zeros(w - NatLen(n)) \o NatStr(n)

RECURSIVE NatOf(_)
NatOf(ds) == IF ds = <<>> THEN 0
             ELSE 10 * NatOf(SubSeq(ds, 1, Len(ds) - 1)) + DigitVal(ds[Len(ds)])

\* ------------------------------------------------------------------- d128
\* decimal::d128 is an IEEE 754 decimal128: a sign, a coefficient and an
\* exponent (so "12.50" keeps its two places), or a not-a-number.
NaN == [kind |-> "NaN", sign |-> 0, coef |-> 0, exp |-> 0]
Finite(sign, coef, exp) == [kind |-> "finite", sign |-> sign, coef |-> coef, exp |-> exp]

Unsigned(s) == IF s # <<>> /\ s[1] \in {"-", "+"} THEN Tail(s) ELSE s
DotAt(u) == IF \E i \in 1..Len(u) : u[i] = "."
            THEN CHOOSE i \in 1..Len(u) : u[i] = "." ELSE 0

\* The numeric-string syntax of the decimal type over the model's alphabet:
\* an optional sign, then digits with at most one '.', at least one digit.
IsNumericString(s) ==
    LET u == Unsigned(s) IN
    /\ \A i \in 1..Len(u) : IsDigit(u[i]) \/ u[i] = "."
    /\ Cardinality({i \in 1..Len(u) : u[i] = "."}) <= 1
    /\ \E i \in 1..Len(u) : IsDigit(u[i])

\* The value a numeric string denotes.
NumericValue(s) ==
    LET u == Unsigned(s)
        d == DotAt(u)
    IN Finite(IF s[1] = "-" THEN 1 ELSE 0,
              NatOf(SelectSeq(u, IsDigit)),
              IF d = 0 THEN 0 ELSE -(Len(u) - d))

\* str::parse::<d128>() (lines 147, 149).  d128's FromStr hands the text to
\* the decimal library's string conversion and wraps what comes back in Ok:
\* text that is no numeric string converts to a quiet NaN, it is not an Err.
parse_d128(s) ==
    [ok |-> TRUE, val |-> IF IsNumericString(s) THEN NumericValue(s) ELSE NaN]

\* d128::neg (lines 91, 150, 158): 0 - x.  A NaN stays the NaN it was and a
\* zero comes back with sign 0; every other value has its sign flipped.
neg(x) ==
    IF x.kind = "NaN" THEN x
    ELSE IF x.coef = 0 THEN [x EXCEPT !.sign = 0]
    ELSE [x EXCEPT !.sign = 1 - x.sign]

\* Exact decimal sum of two d128 values (no rounding within the model's
\* digit counts); NaN if either operand is NaN.  The program never adds: the
\* sum is what the balance of two postings is stated with.
add(x, y) ==
    IF x.kind = "NaN" \/ y.kind = "NaN" THEN NaN
    ELSE LET e == IF x.exp < y.exp THEN x.exp ELSE y.exp
             sx == (IF x.sign = 1 THEN -1 ELSE 1) * x.coef * Pow10(x.exp - e)
             sy == (IF y.sign = 1 THEN -1 ELSE 1) * y.coef * Pow10(y.exp - e)
             t == sx + sy
         IN Finite(IF t < 0 THEN 1 ELSE 0, IF t < 0 THEN -t ELSE t, e)

IsZero(x) == x.kind = "finite" /\ x.coef = 0

\* Display for d128 (lines 88, 91): the library's scientific string.  Plain
\* notation when the exponent is <= 0 and the adjusted exponent >= -6,
\* exponential notation otherwise.
d128_to_string(x) ==
    IF x.kind = "NaN" THEN (IF x.sign = 1 THEN "-NaN" ELSE "NaN")
    ELSE LET digits == NatStr(x.coef)
             n == NatLen(x.coef)
             f == -x.exp
             adj == x.exp + n - 1
             sgn == IF x.sign = 1 THEN "-" ELSE ""
             whole == x.coef \div Pow10(f)
             frac == x.coef % Pow10(f)
             lead == x.coef \div Pow10(n - 1)
             rest == x.coef % Pow10(n - 1)
         IN IF x.exp <= 0 /\ adj >= -6
            THEN IF x.exp = 0 THEN sgn \o digits
                 ELSE sgn \o NatStr(whole) \o "." \o Pad(frac, f)
            ELSE sgn \o NatStr(lead)
                     \o (IF n > 1 THEN "." \o Pad(rest, n - 1) ELSE "")
                     \o "E" \o (IF adj < 0 THEN "-" \o NatStr(-adj) ELSE "+" \o NatStr(adj))

\* --------------------------------------------------------------- NaiveDate
IsLeap(y) == (y % 4 = 0 /\ y % 100 # 0) \/ y % 400 = 0
DaysInMonth(y, m) ==
    IF m = 2 THEN (IF IsLeap(y) THEN 29 ELSE 28)
    ELSE IF m \in {4, 6, 9, 11} THEN 30 ELSE 31

\* The items of the two date patterns the model configures: a numeric item
\* is [num |-> its field, w |-> the most digits it takes], a literal is
\* [lit |-> the character].
FormatItems(fmt) ==
    IF fmt = "%Y-%m-%d"
    THEN << [num |-> "y", w |-> 4], [lit |-> "-"], [num |-> "m", w |-> 2],
            [lit |-> "-"], [num |-> "d", w |-> 2] >>
    ELSE << [num |-> "d", w |-> 2], [lit |-> "/"], [num |-> "m", w |-> 2],
            [lit |-> "/"], [num |-> "y", w |-> 4] >>

\* Length of the longest run of digits at the head of s, at most w.
RECURSIVE DigitRun(_, _)
DigitRun(s, w) == IF w = 0 \/ s = <<>> \/ ~IsDigit(s[1]) THEN 0
                  ELSE 1 + DigitRun(Tail(s), w - 1)

\* s without its leading whitespace: every numeric item starts by trimming.
RECURSIVE TrimStart(_)
TrimStart(s) == IF s # <<>> /\ s[1] = " " THEN TrimStart(Tail(s)) ELSE s

\* ds without its leading zeros.
RECURSIVE StripZeros(_)
StripZeros(ds) == IF ds # <<>> /\ ds[1] = "0" THEN StripZeros(Tail(ds)) ELSE ds

\* The number a run of digits denotes, or None when it is beyond every year
\* a NaiveDate holds (more than six significant digits: out of range).
Number(ds) == IF Len(StripZeros(ds)) > 6 THEN None ELSE Some(NatOf(ds))

\* One numeric item at the head of s: [n |-> its value, rest |-> what
\* follows it], or None.  Leading whitespace is skipped; the year takes an
\* explicit '+' or '-' and then any number of digits; without a sign an item
\* takes as many digits as it can up to its width, at least one.
NumericItem(s, it) ==
    LET t == TrimStart(s)
        signed == it.num = "y" /\ t # <<>> /\ t[1] \in {"-", "+"}
        body == IF signed THEN Tail(t) ELSE t
        k == DigitRun(body, IF signed THEN Len(body) ELSE it.w)
        v == Number(SubSeq(body, 1, k))
    IN IF k = 0 \/ ~v.some THEN None
       ELSE Some([n |-> IF signed /\ t[1] = "-" THEN -v.val ELSE v.val,
                  rest |-> SubSeq(body, k + 1, Len(body))])

\* Scan s against the items, left to right; acc collects the fields.  A
\* literal must match; nothing may be left over.
RECURSIVE Scan(_, _, _)
Scan(s, items, acc) ==
    IF items = <<>> THEN (IF s = <<>> THEN Some(acc) ELSE None)
    ELSE LET it == items[1] IN
         IF "lit" \in DOMAIN it
         THEN IF s # <<>> /\ s[1] = it.lit THEN Scan(Tail(s), Tail(items), acc) ELSE None
         ELSE LET r == NumericItem(s, it) IN
              IF ~r.some THEN None
              ELSE Scan(r.val.rest, Tail(items), [acc EXCEPT ![it.num] = r.val.n])

\* NaiveDate::parse_from_str (line 127): Ok(date) or Err.  The year must be
\* one a NaiveDate holds (-262143 to 262142), the month and the day must
\* exist.
parse_from_str(s, fmt) ==
    LET r == Scan(s, FormatItems(fmt), [y |-> 0, m |-> 0, d |-> 0]) IN
    IF ~r.some THEN [ok |-> FALSE]
    ELSE IF /\ r.val.y \in -262143..262142
            /\ r.val.m \in 1..12
            /\ r.val.d \in 1..DaysInMonth(r.val.y, r.val.m)
         THEN [ok |-> TRUE, val |-> r.val]
         ELSE [ok |-> FALSE]

\* Display for NaiveDate (line 80): YYYY-MM-DD, zero padded; a year outside
\* 0..9999 is written with its sign and at least four digits.
date_to_string(d) ==
    (IF d.y \in 0..9999 THEN Pad(d.y, 4)
     ELSE IF d.y < 0 THEN "-" \o Pad(-d.y, 4) ELSE "+" \o Pad(d.y, 4))
        \o "-" \o Pad(d.m, 2) \o "-" \o Pad(d.d, 2)

\* ------------------------------------------------------------------- input
\* Fields of the records the model reads, character by character.
F_empty == <<>>
F_2023_01_05 == <<"2", "0", "2", "3", "-", "0", "1", "-", "0", "5">>
F_2023_01_06 == <<"2", "0", "2", "3", "-", "0", "1", "-", "0", "6">>
F_2023_02_30 == <<"2", "0", "2", "3", "-", "0", "2", "-", "3", "0">>
F_2024_02_29 == <<"2", "0", "2", "4", "-", "0", "2", "-", "2", "9">>
F_5_s1_p12345 == <<"5", "/", " ", "1", "/", "+", "1", "2", "3", "4", "5">>
F_s2023_01_05 == <<" ", "2", "0", "2", "3", "-", "0", "1", "-", "0", "5">>
F_12_50 == <<"1", "2", ".", "5", "0">>
F_7_00 == <<"7", ".", "0", "0">>
F_3 == <<"3">>
F_m4_5 == <<"-", "4", ".", "5">>
F_1 == <<"1">>
F_abc == <<"a", "b", "c">>
F_CoffeeShop == <<"C", "o", "f", "f", "e", "e", " ", "S", "h", "o", "p">>
F_coffeeshop == <<"c", "o", "f", "f", "e", "e", " ", "s", "h", "o", "p">>
F_Refund == <<"R", "e", "f", "u", "n", "d">>
F_Rent == <<"R", "e", "n", "t">>
F_ACME == <<"A", "C", "M", "E">>
F_Bob == <<"B", "o", "b">>

\* Columns: date, amount in, amount out, description, payee.
RecordPool == {
    <<F_2023_01_05, F_12_50, F_empty, F_CoffeeShop, F_empty>>,
    <<F_2023_01_06, F_empty, F_7_00, F_Refund, F_ACME>>,
    <<F_2023_02_30, F_3, F_empty, F_Refund, F_empty>>,
    <<F_5_s1_p12345, F_m4_5, F_1, F_coffeeshop, F_Bob>>,
    <<F_2024_02_29, F_abc, F_empty, F_Rent, F_empty>>,
    <<F_s2023_01_05, F_empty, F_abc, F_coffeeshop, F_ACME>> }

RECURSIVE SeqsUpTo(_, _)
SeqsUpTo(S, n) ==
    IF n = 0 THEN {<<>>}
    ELSE LET shorter == SeqsUpTo(S, n - 1) IN
         shorter \cup {Append(q, x) : q \in {r \in shorter : Len(r) = n - 1}, x \in S}

\* struct TransactionRule (lines 47-50) and the rule table of the model.
Rule(account, info) == [account |-> account, info |-> info]
RuleTable ==
    [k \in {"Coffee Shop", "Refund", "Rent"} |->
        IF k = "Coffee Shop" THEN Rule(Some("Expenses:Coffee"), Some("Morning coffee"))
        ELSE IF k = "Refund" THEN Rule(None, Some("Money back"))
        ELSE Rule(Some("Expenses:Rent"), None)]

\* struct Config (lines 29-44).  delimiter and quote configure the reader only.
Configs ==
    [ currency : {"USD"},
      processing_account : {"Assets:Checking"},
      default_account : {"Expenses:Unknown"},
      date_format : {"%Y-%m-%d", "%d/%m/%Y"},
      date : {0},
      amount_in : {1},
      amount_out : {2},
      description : {3},
      payee : {None, Some(4), Some(5)},
      skip : {None, Some(-1)} \cup {Some(n) : n \in 0..MaxRows},
      toggle_sign : {None, Some(FALSE), Some(TRUE)} ]

\* ------------------------------------------------------------- Transaction
\* A slip in the accessor: the other field's Option.
info_of_account(rule) == rule.account

\* TransactionRule::info, TransactionRule::account (lines 53-59).
info(rule) == rule.info
account(rule) == rule.account

\* &record[i as usize] (lines 124-127, 145-146): the index is an i64 cast to
\* usize, so a negative one becomes larger than any record; indexing past the
\* end of a record panics.
InBounds(record, i) == i >= 0 /\ i < Len(record)
Field(record, i) == record[i + 1]

\* transaction_rules.as_ref().and_then(|rules| rules.get(description))
\* (lines 130-132): exact-key lookup.
current_transaction_rule(rls, description) ==
    IF rls.some /\ description \in DOMAIN rls.val THEN Some(rls.val[description])
    ELSE None

\* The magnitude block with the toggle read as toggle_sign.is_some().
magnitude_is_some(cfg, in_amount, out_amount, description) ==
    LET pin == parse_d128(in_amount)
        pout == parse_d128(out_amount)
        toggle(amt) == IF cfg.toggle_sign.some THEN neg(amt) ELSE amt
    IN IF pin.ok THEN [ok |-> TRUE, val |-> toggle(pin.val)]
       ELSE IF pout.ok THEN [ok |-> TRUE, val |-> toggle(neg(pout.val))]
       ELSE [ok |-> FALSE,
             msg |-> "Could not parse either in or out amounts for " \o description]

\* The magnitude block (lines 144-162), given the two amount fields.
magnitude(cfg, in_amount, out_amount, description) ==
    LET pin == parse_d128(in_amount)
        pout == parse_d128(out_amount)
        toggle(amt) == IF cfg.toggle_sign = Some(TRUE) THEN neg(amt) ELSE amt
    IN IF pin.ok THEN [ok |-> TRUE, val |-> toggle(pin.val)]
       ELSE IF pout.ok THEN [ok |-> TRUE, val |-> toggle(neg(pout.val))]
       ELSE [ok |-> FALSE,
             msg |-> "Could not parse either in or out amounts for " \o description]

\* The payee without the filter on the empty string.
payee_unfiltered(cfg, record) ==
    IF cfg.payee.some THEN Some(Str(Field(record, cfg.payee.val))) ELSE None

\* config.payee.map(|payee| &record[payee as usize]).filter(|payee|
\* !payee.is_empty()) (lines 122-125), for an index inside the record.
payee_of(cfg, record) ==
    IF cfg.payee.some /\ Field(record, cfg.payee.val) # <<>>
    THEN Some(Str(Field(record, cfg.payee.val))) ELSE None

Panic == [status |-> "panic"]
Err(msg) == [status |-> "error", msg |-> msg]

\* The body of the loop after the separator (lines 122-164): the Transaction
\* built from one record, or the panic or error that ends the run.
build(cfg, rls, record) ==
    IF cfg.payee.some /\ ~InBounds(record, cfg.payee.val) THEN Panic
    ELSE IF ~InBounds(record, cfg.description) THEN Panic
    ELSE IF ~InBounds(record, cfg.date) THEN Panic
    ELSE
    LET payee == payee_of(cfg, record)
        description == Str(Field(record, cfg.description))
        date == parse_from_str(Field(record, cfg.date), cfg.date_format)
        rule == current_transaction_rule(rls, description)
    IN IF ~date.ok THEN Err("date")
       ELSE IF ~InBounds(record, cfg.amount_in) THEN Panic
       ELSE IF ~InBounds(record, cfg.amount_out) THEN Panic
       ELSE
       LET mag == magnitude(cfg, Field(record, cfg.amount_in),
                            Field(record, cfg.amount_out), description)
       IN IF ~mag.ok THEN Err(mag.msg)
          ELSE [status |-> "ok",
                t |-> [date |-> date.val,
                       description |->
                           UnwrapOr(IF rule.some THEN info(rule.val) ELSE None, description),
                       payee |-> payee,
                       processing_account |-> cfg.processing_account,
                       other_account |->
                           UnwrapOr(IF rule.some THEN account(rule.val) ELSE None,
                                    cfg.default_account),
                       magnitude |-> mag.val,
                       currency |-> cfg.currency]]

\* The two postings Display writes (lines 87-92).
Postings(t) ==
    << [account |-> t.processing_account, amount |-> t.magnitude, currency |-> t.currency],
       [account |-> t.other_account, amount |-> neg(t.magnitude), currency |-> t.currency] >>

PostingLine(p) == "  " \o p.account \o " " \o d128_to_string(p.amount) \o " " \o p.currency

\* The header line of the format string (line 77): {} * {} "{}" with the
\* date, the payee in quotes or the empty string, and the description.
HeaderLine(t) ==
    date_to_string(t.date) \o " * "
        \o (IF t.payee.some THEN "\"" \o t.payee.val \o "\"" ELSE "")
        \o " \"" \o t.description \o "\""

\* impl Display for Transaction (lines 73-95): three lines.
fmt(t) == << HeaderLine(t), PostingLine(Postings(t)[1]), PostingLine(Postings(t)[2]) >>

\* ------------------------------------------------------------ the program
\* A loop that forgets the skip.
Skipped_none(cfg, len) == 0

\* rdr.records().skip(n as usize) (line 113): the records the iterator drops
\* before it yields the first one; a negative skip casts to more than any file
\* holds.
Skipped(cfg, len) ==
    LET n == UnwrapOr(cfg.skip, 0) IN
    IF n < 0 \/ n > len THEN len ELSE n

Init ==
    /\ config \in Configs
    /\ rules \in {None, Some(RuleTable)}
    /\ records \in SeqsUpTo(RecordPool, MaxRows)
    /\ pc = "start"
    /\ pos = 0
    /\ first = TRUE
    /\ out = <<>>
    /\ txns = <<>>
    /\ failure = None

\* Lines 98-113: configuration loaded, reader built, leading records skipped.
Start ==
    /\ pc = "start"
    /\ pc' = "loop"
    /\ pos' = Skipped(config, Len(records))
    /\ UNCHANGED <<config, rules, records, first, out, txns, failure>>

\* println!() unless this is the first record of the loop (lines 116-120).
Separator == IF first THEN <<>> ELSE <<"">>

\* One iteration of the loop that prints a transaction (lines 113-167).
RowOk ==
    /\ pc = "loop"
    /\ pos < Len(records)
    /\ LET r == build(config, rules, records[pos + 1]) IN
       /\ r.status = "ok"
       /\ out' = out \o Separator \o fmt(r.t)
       /\ txns' = Append(txns, r.t)
    /\ first' = FALSE
    /\ pos' = pos + 1
    /\ UNCHANGED <<config, rules, records, pc, failure>>

\* One iteration of the loop that ends the run: the separator is already
\* printed (lines 116-120) when the record panics or returns an Err.
RowFail ==
    /\ pc = "loop"
    /\ pos < Len(records)
    /\ LET r == build(config, rules, records[pos + 1]) IN
       /\ r.status # "ok"
       /\ failure' = Some(r)
    /\ out' = out \o Separator
    /\ first' = FALSE
    /\ pos' = pos + 1
    /\ pc' = "aborted"
    /\ UNCHANGED <<config, rules, records, txns>>

\* The iterator is exhausted: Ok(()) (line 169).
Finish ==
    /\ pc = "loop"
    /\ pos = Len(records)
    /\ pc' = "done"
    /\ UNCHANGED <<config, rules, records, pos, first, out, txns, failure>>

Next == Start \/ RowOk \/ RowFail \/ Finish

Spec == Init /\ [][Next]_vars

\* ------------------------------------------------------------ observations
\* The record the k-th printed transaction came from.
FirstRow == Skipped(config, Len(records))
RecOf(k) == records[FirstRow + k]

\* The three output lines of the k-th printed transaction: every printed
\* transaction but the first is preceded by one separator line.
Lines(k) == SubSeq(out, 4 * (k - 1) + 1, 4 * (k - 1) + 3)

\* The output of a run that prints the transactions ts and returns Ok.
RECURSIVE RenderAll(_)
RenderAll(ts) ==
    IF ts = <<>> THEN <<>>
    ELSE IF Len(ts) = 1 THEN fmt(ts[1])
    ELSE RenderAll(SubSeq(ts, 1, Len(ts) - 1)) \o <<"">> \o fmt(ts[Len(ts)])

RuleHit(raw) == rules.some /\ raw \in DOMAIN rules.val
AmountPrefix == "Could not parse either in or out amounts for "

\* ------------------------------------------------------------------ claims

\* C1: for every record that is printed, the magnitude on the processing
\* account is the amount-in field's value when that field is a decimal
\* number, otherwise the negation of the amount-out field's value when that
\* one is a decimal number (negated once more under toggle_sign: true); a
\* record neither of whose amount fields is a decimal number is not printed.
C1_InOutResolution ==
    \A k \in 1..Len(txns) :
        LET in_amount == Field(RecOf(k), config.amount_in)
            out_amount == Field(RecOf(k), config.amount_out)
            resolved == IF IsNumericString(in_amount) THEN NumericValue(in_amount)
                        ELSE neg(NumericValue(out_amount))
        IN /\ IsNumericString(in_amount) \/ IsNumericString(out_amount)
           /\ txns[k].magnitude =
                  IF config.toggle_sign = Some(TRUE) THEN neg(resolved) ELSE resolved

\* C2: for every printed transaction the amounts of its two postings sum to
\* exactly zero and both postings carry the same currency.
C2_DoubleEntryBalance ==
    \A k \in 1..Len(txns) :
        LET p == Postings(txns[k]) IN
        /\ IsZero(add(p[1].amount, p[2].amount))
        /\ p[1].currency = p[2].currency
        /\ p[1].currency = config.currency

\* C3: the printed description is the info of the rule keyed by exactly the
\* raw description when there is such a rule and it has one, else the raw
\* description; the destination account is that rule's account when it has
\* one, else default_account; no table and no matching key give the defaults.
C3_RuleResolution ==
    \A k \in 1..Len(txns) :
        LET raw == Str(Field(RecOf(k), config.description))
            t == txns[k]
            wantDescription == IF RuleHit(raw) /\ rules.val[raw].info.some
                               THEN rules.val[raw].info.val ELSE raw
            wantAccount == IF RuleHit(raw) /\ rules.val[raw].account.some
                           THEN rules.val[raw].account.val ELSE config.default_account
        IN /\ t.description = wantDescription
           /\ t.other_account = wantAccount
           /\ Lines(k)[3] = "  " \o wantAccount \o " "
                                \o d128_to_string(neg(t.magnitude)) \o " " \o config.currency

\* C3 witness: a printed transaction whose raw description has a rule with
\* both overrides.
C3_Witness ==
    \E k \in 1..Len(txns) :
        LET raw == Str(Field(RecOf(k), config.description)) IN
        /\ RuleHit(raw) /\ rules.val[raw].info.some /\ rules.val[raw].account.some
        /\ txns[k].description = "Morning coffee"

\* C4: when a record ends the run, the output written so far is exactly the
\* output of a successful run over the records before it: nothing is printed
\* for the failing record.
C4_AbortLeavesCleanPrefix ==
    pc = "aborted" => out = RenderAll(txns)

\* C5: a run that returns Ok with skip = n >= 0 (absent: 0) has printed
\* exactly one transaction for each record after the first n, in record
\* order, nothing for the first n, and nothing at all when n is at least the
\* number of records.
C5_SkipThenOnePerRow ==
    (pc = "done" /\ UnwrapOr(config.skip, 0) >= 0) =>
        LET n == UnwrapOr(config.skip, 0)
            m == IF n >= Len(records) THEN 0 ELSE Len(records) - n
        IN /\ Len(txns) = m
           /\ \A k \in 1..m :
                  build(config, rules, records[n + k]) = [status |-> "ok", t |-> txns[k]]
           /\ out = RenderAll(txns)

\* C5 witness: a successful run over three records that skipped one and
\* printed two.
C5_Witness ==
    /\ pc = "done" /\ config.skip = Some(1)
    /\ Len(records) = 3 /\ Len(txns) = 2 /\ Len(out) = 7

\* C6: a blank output line has a printed transaction's line right before it
\* and right after it, and there is exactly one blank line per consecutive
\* pair of printed transactions.
C6_BlankLinesOnlyBetween ==
    /\ \A i \in 1..Len(out) :
           out[i] = "" => /\ 1 < i /\ i < Len(out)
                          /\ out[i - 1] # "" /\ out[i + 1] # ""
    /\ Cardinality({i \in 1..Len(out) : out[i] = ""})
           = IF txns = <<>> THEN 0 ELSE Len(txns) - 1

\* C7: a printed record with no payee and no matching rule is rendered as
\* the header <date> * "<description>" with single spaces, then the
\* processing-account posting, then the default-account posting with the
\* negated magnitude; the example record of the specification renders as its
\* three example lines.
C7_HeaderWithoutPayee ==
    \A k \in 1..Len(txns) :
        LET r == RecOf(k)
            t == txns[k]
            raw == Str(Field(r, config.description))
        IN /\ ((~config.payee.some \/ Field(r, config.payee.val) = <<>>) /\ ~RuleHit(raw)) =>
                  Lines(k) = << date_to_string(t.date) \o " * \"" \o raw \o "\"",
                                "  " \o config.processing_account \o " "
                                     \o d128_to_string(t.magnitude) \o " " \o config.currency,
                                "  " \o config.default_account \o " "
                                     \o d128_to_string(neg(t.magnitude)) \o " " \o config.currency >>
           /\ (/\ r = <<F_2023_01_05, F_12_50, F_empty, F_CoffeeShop, F_empty>>
               /\ ~rules.some /\ ~config.payee.some /\ config.toggle_sign = None) =>
                  Lines(k) = << "2023-01-05 * \"Coffee Shop\"",
                                "  Assets:Checking 12.50 USD",
                                "  Expenses:Unknown -12.50 USD" >>

\* C8: a record the loop reaches with a usable date and neither amount field
\* a decimal number ends the run with the error message naming the resolved
\* description: the matching rule's info if it has one, else the raw text.
C8_AmountErrorNamesResolved ==
    (pc \in {"loop", "aborted"} /\ pos > FirstRow) =>
        LET r == records[pos]
            raw == Str(Field(r, config.description))
            resolved == IF RuleHit(raw) /\ rules.val[raw].info.some
                        THEN rules.val[raw].info.val ELSE raw
        IN (/\ ~config.payee.some \/ InBounds(r, config.payee.val)
            /\ parse_from_str(Field(r, config.date), config.date_format).ok
            /\ ~IsNumericString(Field(r, config.amount_in))
            /\ ~IsNumericString(Field(r, config.amount_out))) =>
               /\ pc = "aborted"
               /\ failure = Some(Err(AmountPrefix \o resolved))

\* C9: for every record the loop has processed, building it with
\* toggle_sign: true gives the negation of the magnitude built with
\* toggle_sign false or absent (which agree), and the same date, payee,
\* description, accounts and currency; a record that fails, fails the same
\* way under all three settings.
WithToggle(v) == [config EXCEPT !.toggle_sign = v]
C9_ToggleNegates ==
    /\ \A k \in 1..Len(txns) :
           LET on == build(WithToggle(Some(TRUE)), rules, RecOf(k))
               off == build(WithToggle(Some(FALSE)), rules, RecOf(k))
               absent == build(WithToggle(None), rules, RecOf(k))
           IN /\ off = absent
              /\ on.status = "ok" /\ off.status = "ok"
              /\ on.t.magnitude = neg(off.t.magnitude)
              /\ off.t.magnitude.kind = "finite" =>
                     /\ IsZero(add(on.t.magnitude, off.t.magnitude))
                     /\ on.t.magnitude.coef = off.t.magnitude.coef
                     /\ on.t.magnitude.exp = off.t.magnitude.exp
              /\ [on.t EXCEPT !.magnitude = NaN] = [off.t EXCEPT !.magnitude = NaN]
              /\ txns[k] = IF config.toggle_sign = Some(TRUE) THEN on.t ELSE off.t
    /\ pc = "aborted" =>
           /\ build(WithToggle(Some(TRUE)), rules, records[pos]) = failure.val
           /\ build(WithToggle(Some(FALSE)), rules, records[pos]) = failure.val
           /\ build(WithToggle(None), rules, records[pos]) = failure.val

\* C9 witness: the record with amount in 12.50 printed under
\* toggle_sign: true, as -12.50 on the processing account and 12.50 on the
\* other one.
C9_Witness ==
    /\ config.toggle_sign = Some(TRUE)
    /\ \E k \in 1..Len(txns) :
           /\ txns[k].magnitude = Finite(1, 1250, -2)
           /\ Lines(k)[2] = "  Assets:Checking -12.50 USD"
           /\ Lines(k)[3] = "  Expenses:Unknown 12.50 USD"

\* C10: a printed record whose configured payee field is empty has no payee
\* and is rendered exactly as with no payee column configured, with no
\* quoted payee segment in the header; a non-empty payee field is rendered as
\* one quoted segment before the quoted description.
C10_EmptyPayeeIsNoPayee ==
    \A k \in 1..Len(txns) :
        config.payee.some =>
            LET r == RecOf(k)
                t == txns[k]
                f == Field(r, config.payee.val)
                without == build([config EXCEPT !.payee = None], rules, r)
            IN IF f = <<>>
               THEN /\ t.payee = None
                    /\ without = [status |-> "ok", t |-> t]
                    /\ Lines(k) = fmt(without.t)
                    /\ Lines(k)[1] = date_to_string(t.date) \o " * "
                                         \o " \"" \o t.description \o "\""
               ELSE /\ t.payee = Some(Str(f))
                    /\ Lines(k)[1] = date_to_string(t.date) \o " * "
                                         \o "\"" \o Str(f) \o "\""
                                         \o " \"" \o t.description \o "\""

\* C10 witness: a run with the payee column configured that has printed a
\* record whose payee field is empty and one whose payee field is ACME.
C10_Witness ==
    /\ config.payee = Some(4)
    /\ \E k \in 1..Len(txns) : Field(RecOf(k), 4) = <<>> /\ txns[k].payee = None
    /\ \E k \in 1..Len(txns) : txns[k].payee = Some("ACME")

====
